---- MODULE Spec2Model ----
(***************************************************************************)
(* State-machine model of the notification listeners of notify_postgres:   *)
(*   - UnifiedNotificationSystem   (services/notification-engine/          *)
(*                                  unified_system.py)                     *)
(*   - PostgreSQLNotifier          (notification_system.py)                *)
(*   - MultiTenantBackend listener (services/backend/multi_tenant_app.py)  *)
(* The three classes are never composed in one process: every behaviour    *)
(* runs one of them, chosen in Init (variable deployment).                 *)
(***************************************************************************)
EXTENDS Naturals, Integers, Sequences, FiniteSets, TLC

\* ------------------------------------------------------------------ bounds
\* notifications the datastore emits in one behaviour
MaxNotifs == 2
\* connection faults (connect refused, transport dropped) in one behaviour
MaxFaults == 2
\* listen threads ever created in one behaviour
MaxStarts == 2
\* frames of _listen_loop the interpreter allows on one thread's stack
\* (CPython's recursion limit, scaled down)
RecursionLimit == 2

\* ------------------------------------------------------------- vocabulary
None == "None"
Companies == {"COMP_A", "COMP_B"}
Sinks == {"sio1", "sio2"}
Callbacks == {"f", "g"}
Channels == {"interaction_changes", "status_changes"}
Deployments == {"unified", "notifier", "tenant"}
Scenarios == {"dispatch", "reconnect", "restart"}

\* the company field of a payload object: a tenant, JSON null, "" or absent
Absent == "ABSENT"
Null == "NULL"
Empty == ""
CompanyFields == Companies \cup {Absent, Null, Empty}

\* A payload string, by its syntactic shape: an object (with its company
\* field and its interaction_id), a JSON array, or text that is not JSON.
Payloads(id) ==
  {[shape |-> "object", company |-> c, id |-> id] : c \in CompanyFields}
    \cup {[shape |-> "array", company |-> Absent, id |-> id],
          [shape |-> "invalid", company |-> Absent, id |-> id]}

NoNotify == [channel |-> None, payload |-> None]

\* the store of a behaviour that runs a listener; no write in progress; no
\* write ended yet
NoStore == [nwrites |-> 0]
NoTxn == [pc |-> None]
NoResult == [outcome |-> None]

VARIABLES
  deployment,           \* which of the three programs runs
  scenario,             \* which of the bounds the behaviour exhausts
  backend_connections,  \* UnifiedNotificationSystem.backend_connections
  listeners,            \* PostgreSQLNotifier.listeners
  company_code,         \* MultiTenantBackend.company_code
  running,              \* self.running
  listen_thread,        \* self.listen_thread (0 is None)
  connection,           \* self.connection (0 is None)
  threads,              \* the listen threads ever started, by thread id
  conns,                \* the database connections ever opened, by id
  starting,             \* callers of start_listening past the running check
  joining,              \* threads a caller of stop_listening waits to join
  joined,               \* threads a returned stop_listening had joined
  pushes,               \* every sink emit / callback call, in order
  handled,              \* how each call of the handler ended (its log line)
  nsent,                \* notifications emitted so far
  nfaults,              \* connection faults so far
  store                 \* the interaction store: managers, tables, writes

vars == <<deployment, scenario, backend_connections, listeners,
          company_code, running, listen_thread, connection, threads, conns,
          starting, joining, joined, pushes, handled, nsent, nfaults,
          store>>

\* A behaviour spends one of the bounds in full and the others at their
\* least: many notifications under one listener on a healthy connection,
\* many faults, or many listen threads (with a well-formed notification).
\* Scenario "race" (of SpecRace) has many notifications and many threads.
NotifLimit == IF scenario \in {"dispatch", "race"} THEN MaxNotifs ELSE 1
FaultLimit == IF scenario = "reconnect" THEN MaxFaults ELSE 0
StartLimit == IF scenario \in {"restart", "race"} THEN MaxStarts ELSE 1

\* ----------------------------------------------------------------- helpers
\* a decoder that takes text that is not JSON for an empty object
JsonLoadsLenient(p) ==
  IF p.shape = "object"
  THEN [err |-> None,
        value |-> [type |-> "dict", company |-> p.company, id |-> p.id]]
  ELSE [err |-> None,
        value |-> [type |-> "dict", company |-> Absent, id |-> p.id]]

\* json.loads(notify.payload)
JsonLoads(p) ==
  CASE p.shape = "invalid" -> [err |-> "JSONDecodeError", value |-> None]
    [] p.shape = "array"   -> [err |-> None,
                               value |-> [type |-> "list",
                                          company |-> Absent, id |-> p.id]]
    [] OTHER               -> [err |-> None,
                               value |-> [type |-> "dict",
                                          company |-> p.company, id |-> p.id]]

\* data.get('company', 'COMP_A'): a default tenant for an absent key
DictGetCompanyDefault(data) ==
  CASE data.company = Absent -> "COMP_A"
    [] data.company = Null   -> None
    [] OTHER                 -> data.company

\* data.get('company'): None for an absent key and for JSON null; the caller
\* checks first that data is a dict (list.get raises AttributeError)
DictGetCompany(data) ==
  IF data.company \in {Absent, Null} THEN None ELSE data.company

\* Python truthiness of a company value
Truthy(v) == v # None /\ v # Empty

Alive(t) == threads[t].pc # "done"

NewThread == [pc |-> "connect", depth |-> 1, notify |-> NoNotify]

NewConn == [open |-> TRUE, lost |-> FALSE, subs |-> {},
            inbox |-> <<>>, notifies |-> <<>>]

Usable(c) == c # 0 /\ conns[c].open /\ ~conns[c].lost


\* ------------------------------------------------------------------- Init
Init ==
  /\ deployment \in Deployments
  /\ scenario \in Scenarios
  /\ backend_connections = [c \in Companies |-> None]
  /\ listeners = [ch \in Channels |-> None]
  /\ company_code \in (IF deployment = "tenant" THEN Companies ELSE {None})
  /\ running = FALSE
  /\ listen_thread = 0
  /\ connection = 0
  /\ threads = IF deployment = "tenant" THEN <<NewThread>> ELSE <<>>
  /\ conns = <<>>
  /\ starting = 0
  /\ joining = {}
  /\ joined = {}
  /\ pushes = <<>>
  /\ handled = {}
  /\ nsent = 0
  /\ nfaults = 0
  /\ store = NoStore

\* ------------------------------------------------------------ environment
\* The datastore emits a notification: it reaches every live connection
\* that issued LISTEN on the channel (and waits there for the next poll).
Notify(ch, p) ==
  /\ nsent < NotifLimit
  /\ p.id = nsent + 1
  /\ scenario \in {"restart", "race"} => p.company \in Companies
  /\ deployment = "notifier" => p.company \in {"COMP_A", Absent}
  /\ \E c \in DOMAIN conns : Usable(c) /\ ch \in conns[c].subs
  /\ nsent' = nsent + 1
  /\ conns' = [c \in DOMAIN conns |->
                 IF conns[c].open /\ ~conns[c].lost /\ ch \in conns[c].subs
                 THEN [conns[c] EXCEPT
                         !.inbox = Append(@, [channel |-> ch, payload |-> p])]
                 ELSE conns[c]]
  /\ UNCHANGED <<deployment, scenario, store, backend_connections, listeners,
                 company_code, running, listen_thread, connection, threads,
                 starting, joining, joined, pushes, nfaults, handled>>

\* The transport of an open connection drops (ConnectionLost).
ConnectionLost(c) ==
  /\ nfaults < FaultLimit
  /\ c \in DOMAIN conns
  /\ Usable(c)
  /\ nfaults' = nfaults + 1
  /\ conns' = [conns EXCEPT ![c].lost = TRUE]
  /\ UNCHANGED <<deployment, scenario, store, backend_connections, listeners,
                 company_code, running, listen_thread, connection, threads,
                 starting, joining, joined, pushes, nsent, handled>>

\* --------------------------------------- UnifiedNotificationSystem: admin
\* line 58: self.backend_connections[company_code] = socketio_instance
DictSet(reg, c, s) == [reg EXCEPT ![c] = s]

\* an unregistration that deletes nothing
DictDelNothing(reg, c) == reg

\* an unregistration that empties the registry
DictClear(reg, c) == [d \in DOMAIN reg |-> None]

\* lines 63-64: if company_code in d: del d[company_code]
DictDel(reg, c) == IF reg[c] # None THEN [reg EXCEPT ![c] = None] ELSE reg

register_backend(c, s) ==
  /\ deployment = "unified"
  /\ backend_connections' = DictSet(backend_connections, c, s)
  /\ UNCHANGED <<deployment, scenario, store, listeners, company_code,
                 running, listen_thread, connection, threads, conns, starting,
                 joining, joined, pushes, nsent, nfaults, handled>>

unregister_backend(c) ==
  /\ deployment = "unified"
  /\ backend_connections' = DictDel(backend_connections, c)
  /\ UNCHANGED <<deployment, scenario, store, listeners, company_code,
                 running, listen_thread, connection, threads, conns, starting,
                 joining, joined, pushes, nsent, nfaults, handled>>

\* the warning of a start_listening that found the system running (line 70;
\* line 96 of notification_system.py)
AlreadyRunning == [id |-> 0, how |-> "already_running"]

\* a start_listening without the check of self.running
U_start_listening_unchecked ==
  /\ deployment = "unified"
  /\ Len(threads) + starting < StartLimit
  /\ starting' = starting + 1
  /\ UNCHANGED <<deployment, scenario, store, backend_connections, listeners,
                 company_code, running, listen_thread, connection, threads,
                 conns, joining, joined, pushes, nsent, nfaults, handled>>

\* start_listening, lines 69-71: the check of self.running
U_start_listening ==
  /\ deployment = "unified"
  /\ Len(threads) + starting < StartLimit
  /\ IF running
     THEN /\ handled' = handled \cup {AlreadyRunning}
          /\ UNCHANGED starting
     ELSE /\ starting' = starting + 1
          /\ UNCHANGED handled
  /\ UNCHANGED <<deployment, scenario, store, backend_connections, listeners,
                 company_code, running, listen_thread, connection, threads,
                 conns, joining, joined, pushes, nsent, nfaults>>

\* start_listening, lines 73-76: set running, create and start the thread
U_start_listening_thread ==
  /\ deployment = "unified"
  /\ starting > 0
  /\ starting' = starting - 1
  /\ running' = TRUE
  /\ threads' = Append(threads, NewThread)
  /\ listen_thread' = Len(threads) + 1
  /\ UNCHANGED <<deployment, scenario, store, backend_connections, listeners,
                 company_code, connection, conns, joining, joined, pushes,
                 nsent, nfaults, handled>>

\* stop_listening, lines 80-82: clear running, then join(timeout=5)
U_stop_listening ==
  /\ deployment = "unified"
  /\ running' = FALSE
  /\ joining' = IF listen_thread # 0 THEN joining \cup {listen_thread}
                ELSE joining
  /\ UNCHANGED <<deployment, scenario, store, backend_connections, listeners,
                 company_code, listen_thread, connection, threads, conns,
                 starting, joined, pushes, nsent, nfaults, handled>>

\* What a thread can spend five seconds or more in: a connection attempt,
\* the error backoff (time.sleep(5)), a sink's emit.
LongBlocking(t) == threads[t].pc \in {"connect", "backoff", "emitting"}

\* join(timeout=5) returns: the thread has ended, or the timeout expired
U_join_returns(t) ==
  /\ deployment = "unified"
  /\ t \in joining
  /\ ~Alive(t) \/ LongBlocking(t)
  /\ joining' = joining \ {t}
  /\ joined' = joined \cup {t}
  /\ UNCHANGED <<deployment, scenario, store, backend_connections, listeners,
                 company_code, running, listen_thread, connection, threads,
                 conns, starting, pushes, nsent, nfaults, handled>>

\* ------------------------- UnifiedNotificationSystem._listen_loop (thread)
\* a push that hands the sink the payload text instead of the decoded object
PushRaw(sink, event, n, t) ==
  [sink |-> sink, event |-> event, channel |-> n.channel,
   data |-> n.payload, thread |-> t]

\* the record of one push: the sink's emit (or the callback) was called
Push(sink, event, n, t) ==
  [sink |-> sink, event |-> event, channel |-> n.channel,
   data |-> JsonLoads(n.payload).value, thread |-> t]

\* the entry of handled for notification n
Ended(n, how) == [id |-> n.payload.id, how |-> how]

\* the notification whose push thread t has in progress
Pushing(t) ==
  LET i == CHOOSE i \in DOMAIN pushes :
             /\ pushes[i].thread = t
             /\ \A j \in DOMAIN pushes : pushes[j].thread = t => j <= i
  IN pushes[i].data.id

\* line 88: psycopg2.connect
U_connect(t) ==
  /\ deployment = "unified"
  /\ t \in DOMAIN threads
  /\ threads[t].pc = "connect"
  /\ \/ /\ conns' = Append(conns, NewConn)
        /\ connection' = Len(conns) + 1
        /\ threads' = [threads EXCEPT ![t].pc = "listen"]
        /\ UNCHANGED nfaults
     \/ /\ nfaults < FaultLimit
        /\ nfaults' = nfaults + 1
        /\ threads' = [threads EXCEPT ![t].pc = "except"]
        /\ UNCHANGED <<conns, connection>>
  /\ UNCHANGED <<deployment, scenario, store, backend_connections, listeners,
                 company_code, running, listen_thread, starting, joining,
                 joined, pushes, nsent, handled>>

\* lines 89-94: autocommit, cursor, LISTEN on both channels
U_listen(t) ==
  /\ deployment = "unified"
  /\ t \in DOMAIN threads
  /\ threads[t].pc = "listen"
  /\ IF Usable(connection)
     THEN /\ conns' = [conns EXCEPT ![connection].subs =
                         {"interaction_changes", "status_changes"}]
          /\ threads' = [threads EXCEPT ![t].pc = "while"]
     ELSE /\ threads' = [threads EXCEPT ![t].pc = "except"]
          /\ UNCHANGED conns
  /\ UNCHANGED <<deployment, scenario, store, backend_connections, listeners,
                 company_code, running, listen_thread, connection, starting,
                 joining, joined, pushes, nsent, nfaults, handled>>

\* a loop that polls without testing self.running (while True)
U_poll_forever(t) ==
  /\ deployment = "unified"
  /\ t \in DOMAIN threads
  /\ \/ threads[t].pc = "while"
     \/ threads[t].pc = "drain" /\ conns[connection].notifies = <<>>
  /\ IF Usable(connection)
     THEN /\ conns' = [conns EXCEPT
                         ![connection].notifies = @ \o conns[connection].inbox,
                         ![connection].inbox = <<>>]
          /\ threads' = [threads EXCEPT ![t].pc = "drain"]
     ELSE /\ threads' = [threads EXCEPT ![t].pc = "except"]
          /\ UNCHANGED conns
  /\ UNCHANGED <<deployment, scenario, store, backend_connections, listeners,
                 company_code, running, listen_thread, connection, starting,
                 joining, joined, pushes, nsent, nfaults, handled>>

\* lines 98-100 and 105: (after the drain loop found notifies empty and
\* time.sleep(0.1)) the running check, then poll() on self.connection, which
\* moves what has arrived into connection.notifies
U_poll(t) ==
  /\ deployment = "unified"
  /\ t \in DOMAIN threads
  /\ \/ threads[t].pc = "while"
     \/ threads[t].pc = "drain" /\ conns[connection].notifies = <<>>
  /\ IF ~running
     THEN /\ threads' = [threads EXCEPT ![t].pc = "finally"]
          /\ UNCHANGED conns
     ELSE IF Usable(connection)
     THEN /\ conns' = [conns EXCEPT
                         ![connection].notifies = @ \o conns[connection].inbox,
                         ![connection].inbox = <<>>]
          /\ threads' = [threads EXCEPT ![t].pc = "drain"]
     ELSE /\ threads' = [threads EXCEPT ![t].pc = "except"]
          /\ UNCHANGED conns
  /\ UNCHANGED <<deployment, scenario, store, backend_connections, listeners,
                 company_code, running, listen_thread, connection, starting,
                 joining, joined, pushes, nsent, nfaults, handled>>

\* a membership test that any known tenant passes
RegisteredAlways(c) == c \in DOMAIN backend_connections

\* line 127: company_code in self.backend_connections
Registered(c) ==
  c \in DOMAIN backend_connections /\ backend_connections[c] # None

\* _handle_notification, lines 119-127 and 136-142: whether the notification
\* passes decoding, the company check and the registry's membership test
U_routable(n) ==
  LET r == JsonLoads(n.payload) IN
    /\ r.err = None
    /\ r.value.type = "dict"
    /\ Truthy(DictGetCompany(r.value))
    /\ Registered(DictGetCompany(r.value))

\* the log line of _handle_notification for a notification it drops
U_dropped(n) ==
  LET r == JsonLoads(n.payload) IN
    CASE r.err # None                      -> "invalid_json"
      [] r.value.type # "dict"             -> "error:AttributeError"
      [] ~Truthy(DictGetCompany(r.value))  -> "no_company"
      [] OTHER                             -> "no_backend"

\* lines 101-105 with _handle_notification up to the membership test
U_handle_notification(t) ==
  /\ deployment = "unified"
  /\ t \in DOMAIN threads
  /\ threads[t].pc = "drain"
  /\ conns[connection].notifies # <<>>
  /\ LET n == Head(conns[connection].notifies) IN
       /\ conns' = [conns EXCEPT ![connection].notifies = Tail(@)]
       /\ IF U_routable(n)
          THEN /\ threads' = [threads EXCEPT ![t].pc = "fetch",
                                             ![t].notify = n]
               /\ UNCHANGED handled
          ELSE /\ handled' = handled \cup {Ended(n, U_dropped(n))}
               /\ UNCHANGED threads
  /\ UNCHANGED <<deployment, scenario, store, backend_connections, listeners,
                 company_code, running, listen_thread, connection, starting,
                 joining, joined, pushes, nsent, nfaults>>

\* the event name _handle_notification emits for a channel
\* a mapping that takes the event kind of the other channel
EventOfSwapped(ch) ==
  IF ch = "interaction_changes" THEN "status_update" ELSE "new_engagement"

\* lines 129-135: interaction_changes is pushed as new_engagement,
\* status_changes as status_update
EventOf(ch) ==
  IF ch = "interaction_changes" THEN "new_engagement" ELSE "status_update"

\* a lookup that takes the first connected backend, whatever its tenant
U_lookup_first(c) ==
  backend_connections[CHOOSE d \in Companies : backend_connections[d] # None]

\* line 128: self.backend_connections[company_code]
U_lookup(c) == backend_connections[c]

\* lines 128-135: fetch the registry entry (KeyError when it has gone) and
\* call its emit
U_emit(t) ==
  /\ deployment = "unified"
  /\ t \in DOMAIN threads
  /\ threads[t].pc = "fetch"
  /\ LET n == threads[t].notify
         c == DictGetCompany(JsonLoads(n.payload).value) IN
     IF c \in DOMAIN backend_connections
        /\ backend_connections[c] # None
     THEN /\ pushes' = Append(pushes, Push(U_lookup(c), EventOf(n.channel),
                                           n, t))
          /\ threads' = [threads EXCEPT ![t].pc = "emitting",
                                        ![t].notify = NoNotify]
          /\ UNCHANGED handled
     ELSE /\ threads' = [threads EXCEPT ![t].pc = "drain",
                                        ![t].notify = NoNotify]
          /\ handled' = handled \cup {Ended(n, "error:KeyError")}
          /\ UNCHANGED pushes
  /\ UNCHANGED <<deployment, scenario, store, backend_connections, listeners,
                 company_code, running, listen_thread, connection, conns,
                 starting, joining, joined, nsent, nfaults>>

\* a handler without the except of line 141: the sink's exception reaches
\* the except of _listen_loop
U_after_raise_propagates == "except"

\* where the loop goes when backend.emit raises: the except of line 141
\* catches it and the drain loop goes on
U_after_raise == "drain"

\* a handler that unregisters the tenant whose sink raised
U_emit_ends_evict(t, o) ==
  /\ deployment = "unified"
  /\ t \in DOMAIN threads
  /\ threads[t].pc = "emitting"
  /\ handled' = handled \cup
       {[id |-> Pushing(t),
         how |-> IF o = "returned" THEN "routed" ELSE "error:sink"]}
  /\ threads' = [threads EXCEPT ![t].pc = "drain"]
  /\ backend_connections' =
       IF o = "returned" THEN backend_connections
       ELSE [c \in Companies |->
               IF \E i \in DOMAIN pushes :
                    pushes[i].data.id = Pushing(t)
                    /\ pushes[i].data.company = c
               THEN None ELSE backend_connections[c]]
  /\ UNCHANGED <<deployment, scenario, store, listeners, company_code,
                 running, listen_thread, connection, conns, starting,
                 joining, joined, pushes, nsent, nfaults>>

\* backend.emit returns (line 132/135 logs the routing), or raises into the
\* except of line 141
U_emit_ends(t, o) ==
  /\ deployment = "unified"
  /\ t \in DOMAIN threads
  /\ threads[t].pc = "emitting"
  /\ handled' = handled \cup
       {[id |-> Pushing(t),
         how |-> IF o = "returned" THEN "routed" ELSE "error:sink"]}
  /\ threads' = [threads EXCEPT ![t].pc =
                   IF o = "returned" THEN "drain" ELSE U_after_raise]
  /\ UNCHANGED <<deployment, scenario, store, backend_connections, listeners,
                 company_code, running, listen_thread, connection, conns,
                 starting, joining, joined, pushes, nsent, nfaults>>

\* lines 107-109: the except clause and its check of self.running
U_except(t) ==
  /\ deployment = "unified"
  /\ t \in DOMAIN threads
  /\ threads[t].pc = "except"
  /\ threads' = [threads EXCEPT ![t].pc =
                   IF running THEN "backoff" ELSE "finally"]
  /\ UNCHANGED <<deployment, scenario, store, backend_connections, listeners,
                 company_code, running, listen_thread, connection, conns,
                 starting, joining, joined, pushes, nsent, nfaults, handled>>

\* lines 110-111: time.sleep(5) ends and _listen_loop calls itself; past the
\* interpreter's recursion limit the call raises RecursionError instead,
\* inside the except clause, and the frames unwind through their finally
U_restart(t) ==
  /\ deployment = "unified"
  /\ t \in DOMAIN threads
  /\ threads[t].pc = "backoff"
  /\ threads' = IF threads[t].depth < RecursionLimit
                THEN [threads EXCEPT ![t].pc = "connect",
                                     ![t].depth = @ + 1]
                ELSE [threads EXCEPT ![t].pc = "finally"]
  /\ UNCHANGED <<deployment, scenario, store, backend_connections, listeners,
                 company_code, running, listen_thread, connection, conns,
                 starting, joining, joined, pushes, nsent, nfaults, handled>>

\* lines 112-114: finally closes self.connection; the frame returns into its
\* caller's except clause (whose finally is next), the first frame ends the
\* thread
U_finally(t) ==
  /\ deployment = "unified"
  /\ t \in DOMAIN threads
  /\ threads[t].pc = "finally"
  /\ conns' = IF connection # 0
              THEN [conns EXCEPT ![connection].open = FALSE]
              ELSE conns
  /\ threads' = IF threads[t].depth > 1
                THEN [threads EXCEPT ![t].depth = @ - 1]
                ELSE [threads EXCEPT ![t].pc = "done"]
  /\ UNCHANGED <<deployment, scenario, store, backend_connections, listeners,
                 company_code, running, listen_thread, connection, starting,
                 joining, joined, pushes, nsent, nfaults, handled>>

U_thread(t) ==
  \/ U_connect(t) \/ U_listen(t) \/ U_poll(t) \/ U_handle_notification(t)
  \/ U_emit(t) \/ U_emit_ends(t, "returned") \/ U_emit_ends(t, "raised")
  \/ U_except(t) \/ U_restart(t) \/ U_finally(t)

U_Next ==
  \/ \E c \in Companies, s \in Sinks : register_backend(c, s)
  \/ \E c \in Companies : unregister_backend(c)
  \/ U_start_listening
  \/ U_start_listening_thread
  \/ U_stop_listening
  \/ \E t \in 1..MaxStarts : U_join_returns(t)
  \/ \E t \in 1..MaxStarts : U_thread(t)

\* ------------------------------------------------------ PostgreSQLNotifier
\* a registration that keeps the callback a channel already has
ListenersSetDefault(reg, ch, f) ==
  IF reg[ch] = None THEN [reg EXCEPT ![ch] = f] ELSE reg

\* line 84: self.listeners[channel] = callback
ListenersSet(reg, ch, f) == [reg EXCEPT ![ch] = f]

add_listener(ch, f) ==
  /\ deployment = "notifier"
  /\ listeners' = ListenersSet(listeners, ch, f)
  /\ UNCHANGED <<deployment, scenario, store, backend_connections,
                 company_code, running, listen_thread, connection, threads,
                 conns, starting, joining, joined, pushes, nsent, nfaults,
                 handled>>

\* lines 89-90: if channel in self.listeners: del self.listeners[channel]
ListenersDel(reg, ch) ==
  IF reg[ch] # None THEN [reg EXCEPT ![ch] = None] ELSE reg

remove_listener(ch) ==
  /\ deployment = "notifier"
  /\ listeners' = ListenersDel(listeners, ch)
  /\ UNCHANGED <<deployment, scenario, store, backend_connections,
                 company_code, running, listen_thread, connection, threads,
                 conns, starting, joining, joined, pushes, nsent, nfaults,
                 handled>>

\* disconnect, lines 70-74: close self.connection (it stays assigned)
disconnect ==
  /\ deployment = "notifier"
  /\ conns' = IF connection # 0
              THEN [conns EXCEPT ![connection].open = FALSE] ELSE conns
  /\ UNCHANGED <<deployment, scenario, store, backend_connections, listeners,
                 company_code, running, listen_thread, connection, threads,
                 starting, joining, joined, pushes, nsent, nfaults, handled>>

P_NewThread == [pc |-> "listen", depth |-> 1, notify |-> NoNotify]

\* start_listening, lines 95-97: the check of self.running
P_start_listening ==
  /\ deployment = "notifier"
  /\ Len(threads) + starting < StartLimit
  /\ IF running
     THEN /\ handled' = handled \cup {AlreadyRunning}
          /\ UNCHANGED starting
     ELSE /\ starting' = starting + 1
          /\ UNCHANGED handled
  /\ UNCHANGED <<deployment, scenario, store, backend_connections, listeners,
                 company_code, running, listen_thread, connection, threads,
                 conns, joining, joined, pushes, nsent, nfaults>>

\* a start_listening that sets self.running before it connects
P_start_listening_thread_eager ==
  /\ deployment = "notifier"
  /\ starting > 0
  /\ starting' = starting - 1
  /\ running' = TRUE
  /\ \/ /\ connection = 0
        /\ nfaults < FaultLimit
        /\ nfaults' = nfaults + 1
        /\ UNCHANGED <<listen_thread, connection, threads, conns>>
     \/ /\ IF connection = 0
           THEN /\ conns' = Append(conns, NewConn)
                /\ connection' = Len(conns) + 1
           ELSE UNCHANGED <<conns, connection>>
        /\ threads' = Append(threads, P_NewThread)
        /\ listen_thread' = Len(threads) + 1
        /\ UNCHANGED nfaults
  /\ UNCHANGED <<deployment, scenario, store, backend_connections, listeners,
                 company_code, joining, joined, pushes, handled, nsent>>

\* start_listening, lines 99-105: connect() when there is no connection
\* object (its exception reaches the caller), then set running and start
\* the thread
P_start_listening_thread ==
  /\ deployment = "notifier"
  /\ starting > 0
  /\ starting' = starting - 1
  /\ \/ /\ connection = 0
        /\ nfaults < FaultLimit
        /\ nfaults' = nfaults + 1
        /\ UNCHANGED <<running, listen_thread, connection, threads, conns>>
     \/ /\ IF connection = 0
           THEN /\ conns' = Append(conns, NewConn)
                /\ connection' = Len(conns) + 1
           ELSE UNCHANGED <<conns, connection>>
        /\ running' = TRUE
        /\ threads' = Append(threads, P_NewThread)
        /\ listen_thread' = Len(threads) + 1
        /\ UNCHANGED nfaults
  /\ UNCHANGED <<deployment, scenario, store, backend_connections, listeners,
                 company_code, joining, joined, pushes, handled, nsent>>

\* stop_listening, lines 109-111: clear running, then join()
P_stop_listening ==
  /\ deployment = "notifier"
  /\ running' = FALSE
  /\ joining' = IF listen_thread # 0 THEN joining \cup {listen_thread}
                ELSE joining
  /\ UNCHANGED <<deployment, scenario, store, backend_connections, listeners,
                 company_code, listen_thread, connection, threads, conns,
                 starting, joined, pushes, nsent, nfaults, handled>>

\* join() returns: the thread has ended
P_join_returns(t) ==
  /\ deployment = "notifier"
  /\ t \in joining
  /\ ~Alive(t)
  /\ joining' = joining \ {t}
  /\ joined' = joined \cup {t}
  /\ UNCHANGED <<deployment, scenario, store, backend_connections, listeners,
                 company_code, running, listen_thread, connection, threads,
                 conns, starting, pushes, nsent, nfaults, handled>>

\* lines 116-121: cursor(), then LISTEN on every channel that has a listener
\* now; an exception here is outside the try and ends the thread
P_listen(t) ==
  /\ deployment = "notifier"
  /\ t \in DOMAIN threads
  /\ threads[t].pc = "listen"
  /\ IF Usable(connection)
     THEN /\ conns' = [conns EXCEPT ![connection].subs =
                         @ \cup {ch \in Channels : listeners[ch] # None}]
          /\ threads' = [threads EXCEPT ![t].pc = "while"]
     ELSE /\ threads' = [threads EXCEPT ![t].pc = "done"]
          /\ UNCHANGED conns
  /\ UNCHANGED <<deployment, scenario, store, backend_connections, listeners,
                 company_code, running, listen_thread, connection, starting,
                 joining, joined, pushes, nsent, nfaults, handled>>

\* lines 124-127 and 135-138: the running check and poll(); running False,
\* or an exception of poll (logged), leaves the loop: cursor.close(), return
P_poll(t) ==
  /\ deployment = "notifier"
  /\ t \in DOMAIN threads
  /\ \/ threads[t].pc = "while"
     \/ threads[t].pc = "drain" /\ conns[connection].notifies = <<>>
  /\ IF running /\ Usable(connection)
     THEN /\ conns' = [conns EXCEPT
                         ![connection].notifies = @ \o conns[connection].inbox,
                         ![connection].inbox = <<>>]
          /\ threads' = [threads EXCEPT ![t].pc = "drain"]
     ELSE /\ threads' = [threads EXCEPT ![t].pc = "done"]
          /\ UNCHANGED conns
  /\ UNCHANGED <<deployment, scenario, store, backend_connections, listeners,
                 company_code, running, listen_thread, connection, starting,
                 joining, joined, pushes, nsent, nfaults, handled>>

\* _handle_notification, lines 144-150 and 152-156: whether the payload
\* parses and the channel passes the membership test
P_routable(n) ==
  /\ JsonLoads(n.payload).err = None
  /\ listeners[n.channel] # None

\* lines 129-131 with _handle_notification up to the membership test
P_handle_notification(t) ==
  /\ deployment = "notifier"
  /\ t \in DOMAIN threads
  /\ threads[t].pc = "drain"
  /\ conns[connection].notifies # <<>>
  /\ LET n == Head(conns[connection].notifies) IN
       /\ conns' = [conns EXCEPT ![connection].notifies = Tail(@)]
       /\ IF P_routable(n)
          THEN /\ threads' = [threads EXCEPT ![t].pc = "fetch",
                                             ![t].notify = n]
               /\ UNCHANGED handled
          ELSE /\ handled' = handled \cup
                    {Ended(n, IF JsonLoads(n.payload).err # None
                              THEN "invalid_json" ELSE "no_listener")}
               /\ UNCHANGED threads
  /\ UNCHANGED <<deployment, scenario, store, backend_connections, listeners,
                 company_code, running, listen_thread, connection, starting,
                 joining, joined, pushes, nsent, nfaults>>

\* a handler without the except of line 157: the KeyError of a callback
\* removed since the membership test leaves the loop and ends the thread
P_callback_uncaught(t) ==
  /\ deployment = "notifier"
  /\ t \in DOMAIN threads
  /\ threads[t].pc = "fetch"
  /\ LET n == threads[t].notify IN
     IF listeners[n.channel] # None
     THEN /\ pushes' = Append(pushes, Push(listeners[n.channel], "callback",
                                           n, t))
          /\ threads' = [threads EXCEPT ![t].pc = "emitting",
                                        ![t].notify = NoNotify]
          /\ UNCHANGED handled
     ELSE /\ threads' = [threads EXCEPT ![t].pc = "done",
                                        ![t].notify = NoNotify]
          /\ handled' = handled \cup {Ended(n, "error:KeyError")}
          /\ UNCHANGED pushes
  /\ UNCHANGED <<deployment, scenario, store, backend_connections, listeners,
                 company_code, running, listen_thread, connection, conns,
                 starting, joining, joined, nsent, nfaults>>

\* line 151: fetch the channel's callback (KeyError when it has been
\* removed) and call it with the decoded payload
P_callback(t) ==
  /\ deployment = "notifier"
  /\ t \in DOMAIN threads
  /\ threads[t].pc = "fetch"
  /\ LET n == threads[t].notify IN
     IF listeners[n.channel] # None
     THEN /\ pushes' = Append(pushes, Push(listeners[n.channel], "callback",
                                           n, t))
          /\ threads' = [threads EXCEPT ![t].pc = "emitting",
                                        ![t].notify = NoNotify]
          /\ UNCHANGED handled
     ELSE /\ threads' = [threads EXCEPT ![t].pc = "drain",
                                        ![t].notify = NoNotify]
          /\ handled' = handled \cup {Ended(n, "error:KeyError")}
          /\ UNCHANGED pushes
  /\ UNCHANGED <<deployment, scenario, store, backend_connections, listeners,
                 company_code, running, listen_thread, connection, conns,
                 starting, joining, joined, nsent, nfaults>>

\* the callback returns, or raises into the except of line 157
P_callback_ends(t, o) ==
  /\ deployment = "notifier"
  /\ t \in DOMAIN threads
  /\ threads[t].pc = "emitting"
  /\ handled' = handled \cup
       {[id |-> Pushing(t),
         how |-> IF o = "returned" THEN "returned" ELSE "error:sink"]}
  /\ threads' = [threads EXCEPT ![t].pc = "drain"]
  /\ UNCHANGED <<deployment, scenario, store, backend_connections, listeners,
                 company_code, running, listen_thread, connection, conns,
                 starting, joining, joined, pushes, nsent, nfaults>>

P_thread(t) ==
  \/ P_listen(t) \/ P_poll(t) \/ P_handle_notification(t) \/ P_callback(t)
  \/ P_callback_ends(t, "returned") \/ P_callback_ends(t, "raised")

P_Next ==
  \/ \E ch \in Channels, f \in Callbacks : add_listener(ch, f)
  \/ \E ch \in Channels : remove_listener(ch)
  \/ disconnect
  \/ P_start_listening
  \/ P_start_listening_thread
  \/ P_stop_listening
  \/ \E t \in 1..MaxStarts : P_join_returns(t)
  \/ \E t \in 1..MaxStarts : P_thread(t)

\* --------------------------- MultiTenantBackend.start_notification_listener
\* lines 131-132: get_connection(); an exception reaches the except of line
\* 162, which prints, sleeps and lets the thread end
M_connect(t) ==
  /\ deployment = "tenant"
  /\ t \in DOMAIN threads
  /\ threads[t].pc = "connect"
  /\ \/ /\ conns' = Append(conns, NewConn)
        /\ connection' = Len(conns) + 1
        /\ threads' = [threads EXCEPT ![t].pc = "listen"]
        /\ UNCHANGED nfaults
     \/ /\ nfaults < FaultLimit
        /\ nfaults' = nfaults + 1
        /\ threads' = [threads EXCEPT ![t].pc = "done"]
        /\ UNCHANGED <<conns, connection>>
  /\ UNCHANGED <<deployment, scenario, store, backend_connections, listeners,
                 company_code, running, listen_thread, starting, joining,
                 joined, pushes, nsent, handled>>

\* lines 133-137: cursor, LISTEN on both channels
M_listen(t) ==
  /\ deployment = "tenant"
  /\ t \in DOMAIN threads
  /\ threads[t].pc = "listen"
  /\ IF Usable(connection)
     THEN /\ conns' = [conns EXCEPT ![connection].subs =
                         {"interaction_changes", "status_changes"}]
          /\ threads' = [threads EXCEPT ![t].pc = "while"]
     ELSE /\ threads' = [threads EXCEPT ![t].pc = "done"]
          /\ UNCHANGED conns
  /\ UNCHANGED <<deployment, scenario, store, backend_connections, listeners,
                 company_code, running, listen_thread, connection, starting,
                 joining, joined, pushes, nsent, nfaults, handled>>

\* lines 141-143 and 160: while True, poll()
M_poll(t) ==
  /\ deployment = "tenant"
  /\ t \in DOMAIN threads
  /\ \/ threads[t].pc = "while"
     \/ threads[t].pc = "drain" /\ conns[connection].notifies = <<>>
  /\ IF Usable(connection)
     THEN /\ conns' = [conns EXCEPT
                         ![connection].notifies = @ \o conns[connection].inbox,
                         ![connection].inbox = <<>>]
          /\ threads' = [threads EXCEPT ![t].pc = "drain"]
     ELSE /\ threads' = [threads EXCEPT ![t].pc = "done"]
          /\ UNCHANGED conns
  /\ UNCHANGED <<deployment, scenario, store, backend_connections, listeners,
                 company_code, running, listen_thread, connection, starting,
                 joining, joined, pushes, nsent, nfaults, handled>>

\* lines 144-158: pop, json.loads (JSONDecodeError is caught in the loop),
\* data.get('company') (AttributeError on a non-object is not: it reaches
\* the except of line 162 and the thread ends), the company filter, emit
M_handle(t) ==
  /\ deployment = "tenant"
  /\ t \in DOMAIN threads
  /\ threads[t].pc = "drain"
  /\ conns[connection].notifies # <<>>
  /\ LET n == Head(conns[connection].notifies)
         r == JsonLoads(n.payload) IN
       /\ conns' = [conns EXCEPT ![connection].notifies = Tail(@)]
       /\ IF r.err # None
          THEN /\ handled' = handled \cup {Ended(n, "invalid_json")}
               /\ UNCHANGED <<threads, pushes>>
          ELSE IF r.value.type # "dict"
          THEN /\ threads' = [threads EXCEPT ![t].pc = "done"]
               /\ handled' = handled \cup {Ended(n, "error:AttributeError")}
               /\ UNCHANGED pushes
          ELSE IF DictGetCompany(r.value) = company_code
          THEN /\ pushes' = Append(pushes, Push("socketio",
                                                EventOf(n.channel), n, t))
               /\ threads' = [threads EXCEPT ![t].pc = "emitting"]
               /\ UNCHANGED handled
          ELSE /\ handled' = handled \cup {Ended(n, "other_company")}
               /\ UNCHANGED <<threads, pushes>>
  /\ UNCHANGED <<deployment, scenario, store, backend_connections, listeners,
                 company_code, running, listen_thread, connection, starting,
                 joining, joined, nsent, nfaults>>

\* self.socketio.emit returns, or raises into the except of line 162
M_emit_ends(t, o) ==
  /\ deployment = "tenant"
  /\ t \in DOMAIN threads
  /\ threads[t].pc = "emitting"
  /\ handled' = handled \cup
       {[id |-> Pushing(t),
         how |-> IF o = "returned" THEN "emitted" ELSE "error:sink"]}
  /\ threads' = [threads EXCEPT ![t].pc =
                   IF o = "returned" THEN "drain" ELSE "done"]
  /\ UNCHANGED <<deployment, scenario, store, backend_connections, listeners,
                 company_code, running, listen_thread, connection, conns,
                 starting, joining, joined, pushes, nsent, nfaults>>

M_Next ==
  \/ M_connect(1) \/ M_listen(1) \/ M_poll(1) \/ M_handle(1)
  \/ M_emit_ends(1, "returned") \/ M_emit_ends(1, "raised")

Env ==
  \/ \E ch \in Channels : \E p \in Payloads(nsent + 1) : Notify(ch, p)
  \/ \E c \in 1..(MaxStarts + MaxFaults) : ConnectionLost(c)

Next == Env \/ U_Next \/ P_Next \/ M_Next

Spec == Init /\ [][Next]_vars

\* ------------------------------------------------ starting and stopping
\* UnifiedNotificationSystem or PostgreSQLNotifier with one tenant (one
\* channel callback) registered and well-formed notifications, started and
\* stopped at any moment, with connection faults. The scheduler runs every
\* live thread: a listen thread that can take a step eventually takes one
\* (every connect, poll, emit and callback returns or raises).
InitCancel == Init /\ deployment \in {"unified", "notifier"}

NextCancel ==
  \/ register_backend("COMP_A", "sio1")
  \/ add_listener("interaction_changes", "f")
  \/ U_start_listening
  \/ U_start_listening_thread
  \/ U_stop_listening
  \/ \E t \in 1..MaxStarts : U_join_returns(t)
  \/ \E t \in 1..MaxStarts : U_thread(t)
  \/ P_start_listening
  \/ P_start_listening_thread
  \/ P_stop_listening
  \/ \E t \in 1..MaxStarts : P_join_returns(t)
  \/ \E t \in 1..MaxStarts : P_thread(t)
  \/ Notify("interaction_changes",
            [shape |-> "object", company |-> "COMP_A", id |-> nsent + 1])
  \/ \E c \in 1..(MaxStarts + MaxFaults) : ConnectionLost(c)

SpecCancel ==
  /\ InitCancel
  /\ [][NextCancel]_vars
  /\ \A t \in 1..MaxStarts : WF_vars(U_thread(t)) /\ WF_vars(P_thread(t))

\* ----------------------------------------------- two listen threads at once
\* UnifiedNotificationSystem with one tenant registered, a healthy
\* connection, well-formed notifications, and start_listening called by
\* more than one caller (its check of self.running and its assignment are
\* separate steps).
InitRace ==
  /\ deployment = "unified"
  /\ scenario = "race"
  /\ backend_connections = [c \in Companies |-> None]
  /\ listeners = [ch \in Channels |-> None]
  /\ company_code = None
  /\ running = FALSE
  /\ listen_thread = 0
  /\ connection = 0
  /\ threads = <<>>
  /\ conns = <<>>
  /\ starting = 0
  /\ joining = {}
  /\ joined = {}
  /\ pushes = <<>>
  /\ handled = {}
  /\ nsent = 0
  /\ nfaults = 0
  /\ store = NoStore

NextRace ==
  \/ register_backend("COMP_A", "sio1")
  \/ U_start_listening
  \/ U_start_listening_thread
  \/ \E t \in 1..MaxStarts :
        \/ U_connect(t) \/ U_listen(t) \/ U_poll(t)
        \/ U_handle_notification(t) \/ U_emit(t)
        \/ U_emit_ends(t, "returned")
  \/ Notify("interaction_changes",
            [shape |-> "object", company |-> "COMP_A", id |-> nsent + 1])

SpecRace == InitRace /\ [][NextRace]_vars

\* ------------------------------------------------------- a sink that blocks
\* UnifiedNotificationSystem with both tenants registered, each to its own
\* sink, one listen thread, a healthy connection and well-formed
\* notifications. The scheduler runs the listen thread whenever it can take
\* a step; nothing makes a sink's emit return (a sink may block for good),
\* so the return of emit is a step the behaviour may never take.
InitBlocked ==
  /\ Init
  /\ deployment = "unified"
  /\ scenario = "dispatch"

NextBlocked ==
  \/ register_backend("COMP_A", "sio1")
  \/ register_backend("COMP_B", "sio2")
  \/ U_start_listening
  \/ U_start_listening_thread
  \/ U_connect(1) \/ U_listen(1) \/ U_poll(1)
  \/ U_handle_notification(1) \/ U_emit(1)
  \/ U_emit_ends(1, "returned")
  \/ \E ch \in Channels : \E c \in Companies :
       Notify(ch, [shape |-> "object", company |-> c, id |-> nsent + 1])

SpecBlocked ==
  /\ InitBlocked
  /\ [][NextBlocked]_vars
  /\ WF_vars(U_connect(1))
  /\ WF_vars(U_listen(1))
  /\ WF_vars(U_poll(1))
  /\ WF_vars(U_handle_notification(1))
  /\ WF_vars(U_emit(1))

\* ------------------------------------------------------- interaction store
\* MultiTenantInteractionManager (InteractionManager of notification_system.py
\* is the same code without the schema). Two managers write through their
\* own connections, one write at a time; the datastore keeps one table of
\* interactions per schema and, through its trigger, enqueues a notification
\* for every row a committed statement created or updated.

\* writes (create_interaction / update_interaction_status calls) in one
\* behaviour; also the largest interaction id
MaxWrites == 3

Managers == {1, 2}
KnownCodes == {"COMP_A", "COMP_B", "COMP_C"}
\* the company codes a manager is built with: the known ones and another
CompanyCodes == KnownCodes \cup {"COMP_X"}
Schemas == {"company_a", "company_b", "company_c"}
Statuses == {"new", "resolved"}
Ids == 1..MaxWrites
\* the place of a row that does not exist
NoRow == [status |-> None, updated_at |-> 0]

\* schema_mapping.get(self.company_code, 'company_a')
GetSchemaName(code) ==
  CASE code = "COMP_A" -> "company_a"
    [] code = "COMP_B" -> "company_b"
    [] code = "COMP_C" -> "company_c"
    [] OTHER           -> "company_a"

\* a connection that commits every statement as it executes
S_autocommit_on == TRUE

\* get_connection: psycopg2.connect(**self.db_config), autocommit left off
S_autocommit == FALSE

\* a result that reports success whatever the row count
S_update_result_always(rows_affected) == rows_affected >= 0

\* return rows_affected > 0
S_update_result(rows_affected) == rows_affected > 0

\* the datastore: INSERT ... RETURNING id on the table of a schema
DbInsert(tabs, sch, id, stamp) ==
  [tabs EXCEPT ![sch][id] = [status |-> "new", updated_at |-> stamp]]

\* the datastore: UPDATE ... SET status, updated_at WHERE id = %s
DbUpdate(tabs, sch, id, st, stamp) ==
  IF tabs[sch][id] # NoRow
  THEN [tabs EXCEPT ![sch][id] = [status |-> st, updated_at |-> stamp]]
  ELSE tabs

\* cursor.rowcount of the UPDATE
DbRowCount(tabs, sch, id) == IF tabs[sch][id] # NoRow THEN 1 ELSE 0

\* the datastore's trigger: the notification a statement enqueues for the
\* row it wrote, delivered when its transaction commits
DbTrigger(sch, op, id, n) ==
  IF n = 0 THEN <<>>
  ELSE <<[schema |-> sch, id |-> id,
          channel |-> IF op = "create" THEN "interaction_changes"
                      ELSE "status_changes"]>>

\* what the tables and the emitted notifications were when a write began
Before == [tables |-> store.tables, emitted |-> store.emitted]

\* how a write ended
Result(t, outcome, stage, value, rollback, committed) ==
  [mgr |-> t.mgr, op |-> t.op, id |-> t.id, status |-> t.status,
   before |-> t.before, outcome |-> outcome, stage |-> stage,
   value |-> value, rollback |-> rollback, committed |-> committed]

InitStore ==
  /\ deployment = "store"
  /\ scenario = "dispatch"
  /\ backend_connections = [c \in Companies |-> None]
  /\ listeners = [ch \in Channels |-> None]
  /\ company_code = None
  /\ running = FALSE
  /\ listen_thread = 0
  /\ connection = 0
  /\ threads = <<>>
  /\ conns = <<>>
  /\ starting = 0
  /\ joining = {}
  /\ joined = {}
  /\ pushes = <<>>
  /\ handled = {}
  /\ nsent = 0
  /\ nfaults = 0
  /\ \E cs \in [Managers -> CompanyCodes] :
       store = [code |-> cs,
                schema |-> [m \in Managers |-> GetSchemaName(cs[m])],
                tables |-> [sch \in Schemas |-> [i \in Ids |-> NoRow]],
                seq |-> [sch \in Schemas |-> 0],
                emitted |-> <<>>,
                txn |-> NoTxn,
                last |-> NoResult,
                nwrites |-> 0]

\* conn = self.get_connection(); cursor = conn.cursor(): before the try
S_call(m, op, id, st) ==
  /\ deployment = "store"
  /\ store.txn = NoTxn
  /\ store.nwrites < MaxWrites
  /\ LET t == [mgr |-> m, op |-> op, id |-> id, status |-> st,
               before |-> Before, pc |-> "execute", rows_affected |-> 0,
               tables |-> store.tables, notifs |-> <<>>]
     IN \/ store' = [store EXCEPT !.nwrites = @ + 1, !.txn = t]
        \/ store' = [store EXCEPT
                       !.nwrites = @ + 1,
                       !.last = Result(t, "raised", "connect", None,
                                       FALSE, FALSE)]
  /\ UNCHANGED <<deployment, scenario, backend_connections, listeners,
                 company_code, running, listen_thread, connection, threads,
                 conns, starting, joining, joined, pushes, handled, nsent,
                 nfaults>>

create_interaction(m) ==
  /\ m \in Managers
  /\ S_call(m, "create", 0, "new")

update_interaction_status(m, id, st) ==
  /\ m \in Managers
  /\ S_call(m, "update", id, st)

\* cursor.execute(query, ...): the statement runs in the transaction of the
\* connection (or raises); its effects are the connection's own until commit
S_execute ==
  /\ deployment = "store"
  /\ store.txn # NoTxn
  /\ store.txn.pc = "execute"
  /\ LET t == store.txn
         sch == store.schema[t.mgr]
         id == IF t.op = "create" THEN store.seq[sch] + 1 ELSE t.id
         n == IF t.op = "create" THEN 1
              ELSE DbRowCount(store.tables, sch, id)
         tabs == IF t.op = "create"
                 THEN DbInsert(store.tables, sch, id, store.nwrites)
                 ELSE DbUpdate(store.tables, sch, id, t.status,
                               store.nwrites)
         notifs == DbTrigger(sch, t.op, id, n)
         done == [t EXCEPT !.pc = "commit", !.id = id, !.rows_affected = n,
                           !.tables = tabs, !.notifs = notifs]
     IN \/ store' = IF S_autocommit
                     THEN [store EXCEPT
                             !.txn = [done EXCEPT !.notifs = <<>>],
                             !.tables = tabs,
                             !.emitted = @ \o notifs,
                             !.seq[sch] = IF t.op = "create" THEN id ELSE @]
                     ELSE [store EXCEPT
                             !.txn = done,
                             !.seq[sch] = IF t.op = "create" THEN id ELSE @]
        \/ store' = [store EXCEPT !.txn.pc = "except"]
  /\ UNCHANGED <<deployment, scenario, backend_connections, listeners,
                 company_code, running, listen_thread, connection, threads,
                 conns, starting, joining, joined, pushes, handled, nsent,
                 nfaults>>

\* conn.commit() and the return (or commit raises): the datastore applies
\* the transaction and delivers its notifications
S_commit ==
  /\ deployment = "store"
  /\ store.txn # NoTxn
  /\ store.txn.pc = "commit"
  /\ LET t == store.txn
         value == IF t.op = "create" THEN t.id
                  ELSE S_update_result(t.rows_affected)
     IN \/ store' = [store EXCEPT
                       !.tables = t.tables,
                       !.emitted = @ \o t.notifs,
                       !.txn = NoTxn,
                       !.last = Result(t, "returned", "commit", value,
                                       FALSE, TRUE)]
        \/ store' = [store EXCEPT !.txn.pc = "failed_commit"]
  /\ UNCHANGED <<deployment, scenario, backend_connections, listeners,
                 company_code, running, listen_thread, connection, threads,
                 conns, starting, joining, joined, pushes, handled, nsent,
                 nfaults>>

\* except Exception: conn.rollback(); raise -- the datastore discards what
\* the transaction did
S_except ==
  /\ deployment = "store"
  /\ store.txn # NoTxn
  /\ store.txn.pc \in {"except", "failed_commit"}
  /\ store' = [store EXCEPT
                 !.txn = NoTxn,
                 !.last = Result(store.txn, "raised",
                                 IF store.txn.pc = "except" THEN "execute"
                                 ELSE "commit",
                                 None, TRUE, FALSE)]
  /\ UNCHANGED <<deployment, scenario, backend_connections, listeners,
                 company_code, running, listen_thread, connection, threads,
                 conns, starting, joining, joined, pushes, handled, nsent,
                 nfaults>>

NextStore ==
  \/ \E m \in Managers : create_interaction(m)
  \/ \E m \in Managers : \E id \in Ids : \E st \in Statuses :
       update_interaction_status(m, id, st)
  \/ S_execute
  \/ S_commit
  \/ S_except

SpecStore == InitStore /\ [][NextStore]_vars

\* ------------------------------------------------------------- properties
\* what the properties say of a payload, read off its text
HasTenant(p) == p.shape = "object" /\ p.company \in Companies
Decoded(p) == [type |-> "dict", company |-> p.company, id |-> p.id]
Events == {"new_engagement", "status_update"}

\* the step pops the head of the polled connection's queue
Pops ==
  /\ connection # 0
  /\ connection' = connection
  /\ conns[connection].notifies # <<>>
  /\ conns'[connection].notifies = Tail(conns[connection].notifies)

Popped == Head(conns[connection].notifies)

\* the step makes a push; the push it makes
Pushes == pushes' # pushes
ThePush == pushes'[Len(pushes')]

\* C1: tenant isolation of dispatch. Every emit of
\* UnifiedNotificationSystem._handle_notification goes to the sink that the
\* registry holds, at that moment, under the company of the payload (so never
\* to a sink registered only under another tenant), and every emit of the
\* MultiTenantBackend listener is on its own socket with a payload whose
\* company is its own company_code.
C1_TenantIsolation ==
  [][(
     Pushes =>
       /\ Len(pushes') = Len(pushes) + 1
       /\ deployment = "unified" =>
            /\ ThePush.data.company \in DOMAIN backend_connections
            /\ ThePush.sink # None
            /\ ThePush.sink = backend_connections[ThePush.data.company]
       /\ deployment = "tenant" =>
            /\ ThePush.sink = "socketio"
            /\ ThePush.data.company = company_code)]_vars

\* an event of COMP_B was emitted while both tenants had their own sinks
C1_Witness ==
  /\ deployment = "unified"
  /\ Registered("COMP_A") /\ Registered("COMP_B")
  /\ backend_connections["COMP_A"] # backend_connections["COMP_B"]
  /\ \E i \in DOMAIN pushes : pushes[i].data.company = "COMP_B"

\* C2: in UnifiedNotificationSystem a notification whose payload is an object
\* with a non-empty company T, received while T has a sink, is not dropped:
\* the handler goes on to fetch T's sink; the fetch is followed by exactly one
\* emit, on the sink the registry holds under T, with the channel's event name
\* and the decoded payload unchanged (when T was unregistered in between, by
\* none); and no notification is ever emitted twice.
C2_ExactlyOnePush ==
  [][(
     deployment = "unified" =>
       /\ (/\ Pops
           /\ HasTenant(Popped.payload)
           /\ backend_connections[Popped.payload.company] # None)
          => /\ handled' = handled
             /\ pushes' = pushes
             /\ \E t \in DOMAIN threads :
                  /\ threads[t].pc = "drain"
                  /\ threads'[t].pc = "fetch"
                  /\ threads'[t].notify = Popped
       /\ \A t \in DOMAIN threads :
            (threads[t].pc = "fetch" /\ threads'[t].pc # "fetch") =>
              LET n == threads[t].notify
                  T == n.payload.company IN
                IF backend_connections[T] # None
                THEN /\ pushes' = Append(pushes,
                          [sink |-> backend_connections[T],
                           event |-> IF n.channel = "interaction_changes"
                                     THEN "new_engagement"
                                     ELSE "status_update",
                           channel |-> n.channel,
                           data |-> Decoded(n.payload),
                           thread |-> t])
                     /\ handled' = handled
                ELSE pushes' = pushes
       /\ \A i, j \in DOMAIN pushes' :
            pushes'[i].data.id = pushes'[j].data.id => i = j)]_vars

\* a notification of COMP_B was emitted on COMP_B's sink and logged as routed
C2_Witness ==
  /\ deployment = "unified"
  /\ \E i \in DOMAIN pushes :
       /\ pushes[i].data.company = "COMP_B"
       /\ pushes[i].sink = "sio2"
       /\ [id |-> pushes[i].data.id, how |-> "routed"] \in handled

\* C3: a payload object whose company is absent, null or empty is dropped by
\* the handler with no push, whatever the registry holds (the unified system
\* logs "no company", the tenant listener skips it), and every push ever made
\* carries a decoded object with a non-empty company and an event name.
C3_NoTenantNoPush ==
  [][(
     deployment \in {"unified", "tenant"} =>
       /\ (/\ Pops
           /\ Popped.payload.shape = "object"
           /\ Popped.payload.company \in {Absent, Null, Empty})
          => /\ pushes' = pushes
             /\ threads' = threads
             /\ handled' = handled \cup
                  {[id |-> Popped.payload.id,
                    how |-> IF deployment = "unified" THEN "no_company"
                            ELSE "other_company"]}
       /\ \A i \in DOMAIN pushes' :
            /\ pushes'[i].data.type = "dict"
            /\ pushes'[i].data.company \in Companies
            /\ pushes'[i].event \in Events)]_vars

\* a payload without company was dropped while every tenant had a sink
C3_Witness ==
  /\ deployment = "unified"
  /\ \A c \in Companies : Registered(c)
  /\ [id |-> 1, how |-> "no_company"] \in handled
  /\ pushes = <<>>

\* the log line of the unified handler for a payload that is not well-formed
\* or has no tenant
DropLog(p) ==
  CASE p.shape = "invalid" -> "invalid_json"
    [] p.shape = "array"   -> "error:AttributeError"
    [] OTHER               -> "no_company"

\* the step drops the popped notification: the thread stays in its drain
\* loop on the same connection, nothing is pushed
DropsPopped(how) ==
  /\ threads' = threads
  /\ pushes' = pushes
  /\ running' = running
  /\ handled' = handled \cup {[id |-> Popped.payload.id, how |-> how]}

\* C4 as the spec states it: in UnifiedNotificationSystem and in
\* PostgreSQLNotifier a payload that is not well-formed or has no tenant is
\* dropped where it is popped (the loop neither ends nor reconnects) and no
\* sink or callback is ever invoked with such a payload.
C4_AsStated ==
  [][(
     deployment \in {"unified", "notifier"} =>
       /\ (Pops /\ ~HasTenant(Popped.payload)) =>
            DropsPopped(IF deployment = "unified"
                        THEN DropLog(Popped.payload)
                        ELSE IF Popped.payload.shape = "invalid"
                        THEN "invalid_json" ELSE "no_company")
       /\ \A i \in DOMAIN pushes' :
            /\ pushes'[i].data.type = "dict"
            /\ pushes'[i].data.company \in Companies)]_vars

\* C4, amended: UnifiedNotificationSystem drops, where it is popped, every
\* payload that is not well-formed or has no tenant, and never emits one;
\* PostgreSQLNotifier drops only a payload that is not JSON (it has no notion
\* of tenant: an object without company, or an array, goes to the channel's
\* callback). In both, the drop leaves the loop in place on its connection.
C4_Amended ==
  [][(
     /\ deployment = "unified" =>
          /\ (Pops /\ ~HasTenant(Popped.payload)) =>
               DropsPopped(DropLog(Popped.payload))
          /\ \A i \in DOMAIN pushes' :
               /\ pushes'[i].data.type = "dict"
               /\ pushes'[i].data.company \in Companies
     /\ deployment = "notifier" =>
          /\ (Pops /\ Popped.payload.shape = "invalid") =>
               DropsPopped("invalid_json")
          /\ \A i \in DOMAIN pushes' :
               pushes'[i].data.type \in {"dict", "list"})]_vars

\* text that is not JSON was dropped and the notification after it emitted
C4_Witness ==
  /\ deployment = "unified"
  /\ [id |-> 1, how |-> "invalid_json"] \in handled
  /\ \E i \in DOMAIN pushes : pushes[i].data.id = 2

\* C5: when a sink's emit (UnifiedNotificationSystem) or a callback
\* (PostgreSQLNotifier) raises, the only thing that changes besides the log
\* is that the thread is back in its drain loop, in the same frame, on the
\* same connection: no reconnect, no end of the loop.
C5_SinkFailureIsolated ==
  [][(
     (/\ deployment \in {"unified", "notifier"}
      /\ \E h \in handled' \ handled : h.how = "error:sink")
     => /\ connection' = connection
        /\ conns' = conns
        /\ running' = running
        /\ \A t \in DOMAIN threads :
             threads'[t] # threads[t] =>
               /\ threads[t].pc = "emitting"
               /\ threads'[t] = [threads[t] EXCEPT !.pc = "drain"])]_vars

\* a sink raised on the first notification and the second one was emitted
C5_Witness ==
  /\ deployment = "unified"
  /\ [id |-> 1, how |-> "error:sink"] \in handled
  /\ \E i \in DOMAIN pushes : pushes[i].data.id = 2

\* C6: UnifiedNotificationSystem drops a well-formed notification whose
\* tenant has no sink where it is popped: nothing is pushed, the registry and
\* the thread are as before, and the notification is never emitted later.
C6_NoSinkDrop ==
  [][(
     deployment = "unified" =>
       /\ (/\ Pops
           /\ HasTenant(Popped.payload)
           /\ backend_connections[Popped.payload.company] = None)
          => /\ DropsPopped("no_backend")
             /\ backend_connections' = backend_connections
       /\ \A h \in handled' :
            h.how = "no_backend" =>
              \A i \in DOMAIN pushes' : pushes'[i].data.id # h.id)]_vars

\* a notification was dropped for want of a sink, every tenant has a sink
\* now, and the listener is polling again with nothing left to hand out
C6_Witness ==
  /\ deployment = "unified"
  /\ [id |-> 1, how |-> "no_backend"] \in handled
  /\ \A c \in Companies : Registered(c)
  /\ nsent = NotifLimit
  /\ running
  /\ listen_thread # 0
  /\ threads[listen_thread].pc = "drain"
  /\ conns[connection].notifies = <<>>
  /\ conns[connection].inbox = <<>>

\* C7: the pushes one sink sees are in the order of arrival of their
\* notifications (ids count arrivals).
C7_ArrivalOrder ==
  \A i, j \in DOMAIN pushes :
    (i < j /\ pushes[i].sink = pushes[j].sink) =>
      pushes[i].data.id < pushes[j].data.id

\* C8: a listen thread of UnifiedNotificationSystem that waits in the error
\* backoff goes on to connect again.
C8_Reconnects ==
  [][(
     deployment = "unified" =>
       \A t \in DOMAIN threads :
         (threads[t].pc = "backoff" /\ threads'[t].pc # "backoff") =>
           threads'[t].pc = "connect")]_vars

\* C9: a thread that a returned stop_listening had joined is not alive.
C9_StopBlocks ==
  \A t \in joined : ~Alive(t)

\* C10: once stop_listening has returned (the system is stopped, no caller
\* is inside start_listening or stop_listening, and the thread it joined is
\* the last one started), no push is made.
C10_NoPushAfterStop ==
  [][(
     (/\ ~running
      /\ starting = 0
      /\ joining = {}
      /\ listen_thread \in joined) => pushes' = pushes)]_vars

\* C11: start_listening called while running is True is a no-op. While the
\* system is running and no caller is past the check, no step starts a
\* thread, reassigns listen_thread or (in PostgreSQLNotifier, where
\* start_listening connects) opens a connection; and the call that logs
\* "already running" changes nothing but the log.
C11_StartIdempotent ==
  [][(
     deployment \in {"unified", "notifier"} =>
       /\ (running /\ starting = 0) =>
            /\ starting' = 0
            /\ Len(threads') = Len(threads)
            /\ listen_thread' = listen_thread
            /\ deployment = "notifier" => Len(conns') = Len(conns)
       /\ (AlreadyRunning \in handled' /\ AlreadyRunning \notin handled) =>
            /\ running /\ running'
            /\ handled' = handled \cup {AlreadyRunning}
            /\ UNCHANGED <<backend_connections, listeners, listen_thread,
                           connection, threads, conns, starting, joining,
                           joined, pushes>>)]_vars

\* start_listening was called on a running system whose thread is alive
C11_Witness ==
  /\ AlreadyRunning \in handled
  /\ running
  /\ Len(threads) = 1
  /\ Alive(1)
  /\ starting = 0

\* C12: at most one listen thread of UnifiedNotificationSystem is inside the
\* polling loop (polling, draining or dispatching) at any time.
C12_SinglePoller ==
  deployment = "unified" =>
    Cardinality({t \in DOMAIN threads :
                   threads[t].pc \in {"while", "drain", "fetch", "emitting"}})
      <= 1

\* C13: the dispatcher's membership test and fetch are atomic with respect
\* to register_backend and unregister_backend: no dispatch finds the entry
\* missing (KeyError) of a tenant that its membership test saw registered.
C13_RegistrySynchronized ==
  deployment = "unified" =>
    \A h \in handled : h.how # "error:KeyError"

\* C14: from every registry the system reaches, registering a sink for a
\* tenant a second time leaves the registry as the first registration left
\* it, and one unregistration after the two registrations leaves the tenant
\* with no sink.
C14_RegisterIdempotent ==
  deployment = "unified" =>
    \A c \in Companies, s \in Sinks :
      LET once == DictSet(backend_connections, c, s)
          twice == DictSet(once, c, s) IN
        /\ once[c] = s
        /\ twice = once
        /\ DictDel(twice, c)[c] = None

\* both tenants have registered, each its own sink
C14_Witness ==
  /\ deployment = "unified"
  /\ backend_connections["COMP_A"] = "sio1"
  /\ backend_connections["COMP_B"] = "sio2"
  /\ pushes = <<>>

\* C15: unregister_backend(T) leaves the registry unchanged when T is not
\* registered, and otherwise removes T's entry and no other; a step that
\* removes a tenant's entry leaves every other tenant's entry as it was.
C15_UnregisterFrame ==
  [][(
     deployment = "unified" =>
       \A c \in Companies :
         /\ DictDel(backend_connections, c) =
              [d \in Companies |->
                 IF d = c THEN None ELSE backend_connections[d]]
         /\ backend_connections[c] = None =>
              DictDel(backend_connections, c) = backend_connections
         /\ (backend_connections[c] # None /\ backend_connections'[c] = None)
            => \A d \in Companies \ {c} :
                 backend_connections'[d] = backend_connections[d])]_vars

\* COMP_A received an event on its sink and was unregistered afterwards,
\* while COMP_B kept its own
C15_Witness ==
  /\ deployment = "unified"
  /\ \E i \in DOMAIN pushes : pushes[i].data.company = "COMP_A"
  /\ backend_connections["COMP_A"] = None
  /\ backend_connections["COMP_B"] = "sio2"

\* C16: fan-out. A sink registered for a tenant stays in the tenant's sink
\* set until the tenant is unregistered: a step that leaves the tenant
\* registered leaves the sink it had registered (so that after
\* register(T, S1) and register(T, S2) an event of T goes to S1 and S2).
C16_FanOut ==
  [][(
     deployment = "unified" =>
       \A c \in Companies :
         (backend_connections[c] # None /\ backend_connections'[c] # None)
           => backend_connections'[c] = backend_connections[c])]_vars

\* C17: cooperative cancellation. In UnifiedNotificationSystem and
\* PostgreSQLNotifier, whenever running is False every listen thread
\* eventually ends (unless start_listening sets running again first), and a
\* thread that has left its loop for its finally clause never returns to it.
C17_CancellationTerminates ==
  /\ \A t \in 1..MaxStarts :
       (t \in DOMAIN threads /\ ~running /\ deployment # "tenant")
         ~> (running \/ (t \in DOMAIN threads /\ ~Alive(t)))
  /\ [][(
        \A t \in DOMAIN threads :
          threads[t].pc \in {"finally", "done"} =>
            threads'[t].pc \in {"finally", "done"})]_vars

\* the system was stopped while its thread waited in the error backoff, and
\* the thread has ended
C17_Witness ==
  /\ deployment = "unified"
  /\ ~running
  /\ nfaults > 0
  /\ Len(threads) = 1
  /\ threads[1].depth = 1
  /\ ~Alive(1)
  /\ 1 \in joined

\* C18: at most one of the connections that a single listen thread of
\* UnifiedNotificationSystem has opened is open (not yet closed) at any time.
C18_OneOpenConnection ==
  (deployment = "unified" /\ Len(threads) <= 1) =>
    Cardinality({c \in DOMAIN conns : conns[c].open}) <= 1

\* C19: every poll of UnifiedNotificationSystem is made on a connection on
\* which LISTEN has been issued for both channels.
C19_SubscribedBeforePoll ==
  [][(
     deployment = "unified" =>
       \A t \in DOMAIN threads :
         (/\ threads[t].pc = "while"
          /\ threads'[t].pc = "drain")
           => conns[connection].subs = Channels)]_vars

\* C20: a listen thread of UnifiedNotificationSystem has one invocation of
\* _listen_loop active, however many connection or poll failures occur.
C20_NoRecursion ==
  deployment = "unified" =>
    \A t \in DOMAIN threads : threads[t].depth <= 1

\* the last write ended that way and no write is in progress
WriteEnded(outcome) ==
  /\ deployment = "store"
  /\ store.txn = NoTxn
  /\ store.last.outcome = outcome

\* the tables and the emitted notifications are what they were when w began
Unwritten(w) ==
  /\ store.tables = w.before.tables
  /\ store.emitted = w.before.emitted

\* C25 as stated: whenever create_interaction or update_interaction_status
\* raises, rollback was called, no record was created or changed and no
\* notification was emitted for the write; nothing of a write is in the
\* tables or emitted before it committed.
C25_AsStated ==
  /\ WriteEnded("raised") => store.last.rollback /\ Unwritten(store.last)
  /\ (deployment = "store" /\ store.txn # NoTxn) => Unwritten(store.txn)

\* C25, amended: a write that raises has created or changed no record and
\* emitted no notification, and nothing of a write is in the tables or
\* emitted before it committed; rollback was called exactly when the write
\* raised after its connection was opened (a write that raises in
\* get_connection has no transaction to roll back and calls no rollback).
C25_Amended ==
  /\ WriteEnded("raised") =>
       /\ store.last.rollback <=> store.last.stage # "connect"
       /\ Unwritten(store.last)
  /\ (deployment = "store" /\ store.txn # NoTxn) => Unwritten(store.txn)

\* an update of an existing row raised at its commit and was rolled back
C25_Witness ==
  /\ WriteEnded("raised")
  /\ store.last.op = "update"
  /\ store.last.stage = "commit"
  /\ store.last.rollback
  /\ store.tables[store.schema[store.last.mgr]][store.last.id] # NoRow

\* C26: update_interaction_status returns True if and only if a record with
\* the given id existed in the manager's schema; when it returns False no
\* record changed and no notification was emitted; when it returns True the
\* record with that id has the new status and no other record changed.
C26_UpdateResult ==
  (WriteEnded("returned") /\ store.last.op = "update") =>
    LET w == store.last
        sch == store.schema[w.mgr]
    IN /\ w.value <=> w.before.tables[sch][w.id] # NoRow
       /\ ~w.value => Unwritten(w)
       /\ w.value =>
            /\ store.tables[sch][w.id].status = w.status
            /\ \A s2 \in Schemas : \A i \in Ids :
                 <<s2, i>> # <<sch, w.id>> =>
                   store.tables[s2][i] = w.before.tables[s2][i]

\* an update returned True while its schema holds another record
C26_Witness ==
  /\ WriteEnded("returned")
  /\ store.last.op = "update"
  /\ store.last.value
  /\ \E i \in Ids :
       /\ i # store.last.id
       /\ store.tables[store.schema[store.last.mgr]][i] # NoRow

\* C27: a write of a manager changes no table of a schema that a manager
\* built with a different company code has, and a manager built with a code
\* outside the known ones changes no table of a known tenant's schema.
C27_SchemaRouting ==
  WriteEnded("returned") =>
    LET w == store.last
    IN \A sch \in Schemas :
         store.tables[sch] # w.before.tables[sch] =>
           /\ \A m \in Managers :
                store.code[m] # store.code[w.mgr] => store.schema[m] # sch
           /\ store.code[w.mgr] \notin KnownCodes =>
                sch \notin {GetSchemaName(k) : k \in KnownCodes}

\* C21: a standalone listener does not stop for good when poll raises. The
\* listen thread of PostgreSQLNotifier (while running) and of
\* MultiTenantBackend does not end on a poll of a connection whose transport
\* dropped: it goes on to reconnect and re-subscribe.
C21_StandaloneReconnects ==
  [][(
     \A t \in DOMAIN threads :
       (/\ deployment \in {"notifier", "tenant"}
        /\ deployment = "notifier" => running
        /\ threads[t].pc \in {"while", "drain"}
        /\ connection # 0
        /\ conns[connection].lost)
       => threads'[t].pc # "done"
  )]_vars

\* C22: the MultiTenantBackend listener survives a malformed payload. A
\* popped payload that is invalid JSON, non-object JSON or an object without
\* a company does not end the listen thread.
C22_MalformedSurvived ==
  [][(
     (deployment = "tenant" /\ Pops /\ ~HasTenant(Popped.payload)) =>
       \A t \in DOMAIN threads : Alive(t) => threads'[t].pc # "done"
  )]_vars

\* C24: the event kind follows the channel. Every push of
\* UnifiedNotificationSystem for a status_changes notification is a
\* status_update and every push for an interaction_changes notification a
\* new_engagement; its data is the decoded payload object (the id and the
\* tenant of the notification, unchanged); a listen thread pushes a
\* notification at most once.
C24_EventFollowsChannel ==
  deployment = "unified" =>
    \A i \in DOMAIN pushes :
      /\ pushes[i].channel = "status_changes" =>
           pushes[i].event = "status_update"
      /\ pushes[i].channel = "interaction_changes" =>
           pushes[i].event = "new_engagement"
      /\ pushes[i].data \in
           {Decoded(p) : p \in {q \in Payloads(pushes[i].data.id) :
                                  HasTenant(q)}}
      /\ pushes[i].data.id \in 1..nsent
      /\ \A j \in DOMAIN pushes :
           (j # i /\ pushes[j].thread = pushes[i].thread) =>
             pushes[j].data.id # pushes[i].data.id

\* a status_changes and an interaction_changes notification were pushed
C24_Witness ==
  /\ deployment = "unified"
  /\ \E i, j \in DOMAIN pushes :
       /\ pushes[i].event = "status_update"
       /\ pushes[j].event = "new_engagement"

\* C28: one callback per channel, the last add_listener wins. Registering g
\* after f on a channel leaves g alone on it and the other channels as they
\* were; add_listener(ch, g) makes g the callback of ch; and every call the
\* dispatcher makes for a notification on ch is one call of the callback
\* that ch has at that moment (never of a callback it replaced).
C28_LastListenerWins ==
  [][(
     deployment = "notifier" =>
       /\ \A ch \in Channels : \A f, g \in Callbacks :
            /\ ListenersSet(ListenersSet(listeners, ch, f), ch, g)
                 = [listeners EXCEPT ![ch] = g]
            /\ add_listener(ch, g) =>
                 /\ listeners'[ch] = g
                 /\ \A c2 \in Channels \ {ch} : listeners'[c2] = listeners[c2]
       /\ Pushes =>
            /\ Len(pushes') = Len(pushes) + 1
            /\ SubSeq(pushes', 1, Len(pushes)) = pushes
            /\ ThePush.sink = listeners[ThePush.channel]
            /\ ThePush.sink # None
  )]_vars

\* f was called for a notification on a channel, then replaced by g, and g
\* was called for a later notification on the channel
C28_Witness ==
  /\ deployment = "notifier"
  /\ \E i, j \in DOMAIN pushes :
       /\ i < j
       /\ pushes[i].channel = pushes[j].channel
       /\ pushes[i].sink = "f"
       /\ pushes[j].sink = "g"
       /\ listeners[pushes[j].channel] = "g"

\* C29: in PostgreSQLNotifier, running is True only while the listen thread
\* is alive: with no start_listening or stop_listening call in progress,
\* running implies that self.listen_thread has not ended.
C29_RunningMeansAlive ==
  (/\ deployment = "notifier"
   /\ running
   /\ starting = 0
   /\ joining = {}
   /\ listen_thread \in DOMAIN threads)
  => Alive(listen_thread)

\* C30: only register_backend and unregister_backend modify the registry.
\* A step that changes backend_connections sets or deletes one entry and
\* changes nothing else: no step of start_listening, stop_listening, the
\* listen loop, a reconnect or _handle_notification (whatever its outcome)
\* changes it.
C30_RegistryFrame ==
  [][(
     backend_connections' # backend_connections =>
       /\ deployment = "unified"
       /\ \E c \in Companies :
            \/ \E sk \in Sinks :
                 backend_connections' = DictSet(backend_connections, c, sk)
            \/ backend_connections' = DictDel(backend_connections, c)
       /\ UNCHANGED <<deployment, scenario, store, listeners, company_code,
                      running, listen_thread, connection, threads, conns,
                      starting, joining, joined, pushes, handled, nsent,
                      nfaults>>
  )]_vars

\* a sink raised in _handle_notification and a tenant is still registered
C30_Witness ==
  /\ deployment = "unified"
  /\ \E h \in handled : h.how = "error:sink"
  /\ \E c \in Companies : backend_connections[c] # None

\* C23: a blocked sink does not stall delivery to the other sinks. Once the
\* datastore has emitted a notification for a tenant other than the one
\* whose sink is being called, that notification is eventually handled
\* (pushed to its sink or dropped), whether or not the call in progress ever
\* returns.
C23_BlockedSinkNoStall ==
  \A id \in 1..MaxNotifs :
    (/\ nsent >= id
     /\ \E i \in DOMAIN pushes : pushes[i].data.id < id
     /\ \A i \in DOMAIN pushes : pushes[i].data.id < id)
    ~> (\/ \E i \in DOMAIN pushes : pushes[i].data.id = id
        \/ \E h \in handled : h.id = id)

\* C34: a failed start leaves PostgreSQLNotifier stopped. A start_listening
\* that ends without having started a thread (connect raised) leaves running
\* False, listen_thread and self.connection as they were (no connection
\* object) and opens no connection, so that the next start_listening passes
\* the running check and calls connect again.
C34_FailedStartStopped ==
  [][(
     (/\ deployment = "notifier"
      /\ starting' = starting - 1
      /\ Len(threads') = Len(threads))
     => /\ nfaults' = nfaults + 1
        /\ ~running /\ ~running'
        /\ connection = 0 /\ connection' = 0
        /\ listen_thread' = listen_thread
        /\ threads' = threads
        /\ conns' = conns
  )]_vars

\* connect raised in a first start_listening and a later start_listening
\* connected and started the listen thread
C34_Witness ==
  /\ deployment = "notifier"
  /\ nfaults >= 1
  /\ Len(conns) = 1
  /\ ~conns[1].lost
  /\ running
  /\ Len(threads) = 1

\* C35: a notification on a channel whose listener was removed invokes no
\* callback, leaves the listeners map as it is and does not stop the loop:
\* when the channel has no listener as the notification is popped, and when
\* remove_listener ran between the membership test and the fetch of the
\* callback; remove_listener on a channel with no listener changes nothing.
C35_RemovedListenerSkipped ==
  [][(
     deployment = "notifier" =>
       /\ \A ch \in Channels :
            listeners[ch] = None => ListenersDel(listeners, ch) = listeners
       /\ (Pops /\ JsonLoads(Popped.payload).err = None
                /\ listeners[Popped.channel] = None)
          => /\ pushes' = pushes
             /\ listeners' = listeners
             /\ threads' = threads
             /\ handled' = handled \cup {Ended(Popped, "no_listener")}
       /\ \A t \in DOMAIN threads :
            (/\ threads[t].pc = "fetch"
             /\ threads'[t].pc # "fetch"
             /\ listeners[threads[t].notify.channel] = None)
            => /\ pushes' = pushes
               /\ listeners' = listeners
               /\ threads'[t].pc = "drain"
               /\ handled' =
                    handled \cup {Ended(threads[t].notify, "error:KeyError")}
  )]_vars

\* a listener was removed between the membership test and the fetch, and a
\* notification was popped on a channel without a listener; the thread lives
C35_Witness ==
  /\ deployment = "notifier"
  /\ \E h \in handled : h.how = "error:KeyError"
  /\ \E h \in handled : h.how = "no_listener"
  /\ \E t \in DOMAIN threads : Alive(t)

\* C31: restart after stop works. When start_listening is called after a
\* stop_listening has returned (the system is stopped and no caller is
\* inside start_listening or stop_listening), no earlier listen thread is
\* still alive, so that the thread it starts is the only live listen thread
\* and the only one that delivers the notifications emitted afterwards.
C31_RestartWorks ==
  [][(
     (/\ deployment \in {"unified", "notifier"}
      /\ ~running
      /\ starting = 0
      /\ joining = {}
      /\ listen_thread \in joined
      /\ starting' = 1)
     => \A t \in DOMAIN threads : ~Alive(t)
  )]_vars

\* C32: a stopped listener opens no connection. A listen thread of
\* UnifiedNotificationSystem that is in the 5-second wait after an error
\* while running is False does not go on to connect (and LISTEN).
C32_StoppedOpensNothing ==
  [][(
     \A t \in DOMAIN threads :
       (/\ deployment = "unified"
        /\ ~running
        /\ threads[t].pc = "backoff")
       => threads'[t].pc # "connect"
  )]_vars

\* C33: while PostgreSQLNotifier is listening (running, its listen thread in
\* the poll loop on a healthy connection), every channel that has a listener
\* is a channel the connection is subscribed to.
C33_SubscribedToListeners ==
  (/\ deployment = "notifier"
   /\ running
   /\ listen_thread \in DOMAIN threads
   /\ threads[listen_thread].pc \in {"while", "drain", "fetch", "emitting"}
   /\ Usable(connection))
  => {ch \in Channels : listeners[ch] # None} \subseteq conns[connection].subs
====
